---- MODULE Spec2Model ----
(***************************************************************************)
(* Model of .github/workflows/sync_tmdb.py: one process that checks two    *)
(* credentials, downloads five TMDB endpoints in sequence, writes each     *)
(* response to data/<filename>, then writes data/update_info.json and      *)
(* data/last_update.txt and exits.  The environment (credentials, network, *)
(* response bodies, filesystem) is nondeterministic.  The scheduler that   *)
(* starts the script again is modelled by Rerun.                           *)
(***************************************************************************)
EXTENDS Integers, Sequences, FiniteSets, TLC

(* ---------------------------- bounds ---------------------------------- *)
\* largest length of a "results" value the remote service returns
MaxLen == 2
\* number of times the scheduler starts the script
MaxRuns == 2

(* ------------------------- configuration ------------------------------ *)
\* main(): endpoints
endpoints ==
    << <<"/movie/popular", "movies_popular_page1.json">>,
       <<"/movie/top_rated", "movies_top_rated_page1.json">>,
       <<"/movie/now_playing", "movies_now_playing_page1.json">>,
       <<"/tv/popular", "tv_popular_page1.json">>,
       <<"/tv/top_rated", "tv_top_rated_page1.json">> >>

\* main(): total_files = len(endpoints)
total_files == Len(endpoints)

EndpointPaths == [k \in 1..total_files |-> endpoints[k][1]]

\* main(): [filename for _, filename in endpoints]
Filenames == [k \in 1..total_files |-> endpoints[k][2]]

RawFiles == {Filenames[k] : k \in 1..total_files}

InfoFile == "update_info.json"

TextFile == "last_update.txt"

Files == RawFiles \cup {InfoFile, TextFile}

(* --------------------------- JSON values ------------------------------ *)
\* a parsed JSON body: its top-level kind and, for an object, the type and
\* the length of the value under the key "results"
Body(kind, t, n) == [kind |-> kind, results |-> [t |-> t, n |-> n]]

NoBody == [kind |-> "none"]

Sized == {"array", "string", "object"}

Unsized == {"null", "number", "bool"}

\* every shape response.json() can return
AllBodies ==
    {Body("object", t, n) : t \in Sized, n \in 0..MaxLen}
    \cup {Body("object", t, 0) : t \in Unsized \cup {"absent"}}
    \cup {Body(k, "absent", 0) : k \in {"array", "string", "number", "null"}}

\* the bodies the service returns in the runs of the whole script: result
\* lists of every length up to MaxLen and one body whose "results" is null
Bodies ==
    {Body("object", "array", n) : n \in 0..MaxLen} \cup {Body("object", "null", 0)}

\* outcomes of requests.get / raise_for_status / response.json
NetOutcomes == {"ok", "connection_error", "timeout", "http_error", "bad_json"}

\* outcomes of os.makedirs / open / json.dump / f.write
FsOutcomes == {"ok", "open_failed", "write_failed"}

\* values of an environment variable
EnvValues == {"absent", "empty", "set"}

\* Python truthiness of os.environ.get(name)
Truthy(v) == v = "set"

(* ------------------------------ state --------------------------------- *)
VARIABLES
    env,            \* TMDB_API_KEY, TMDB_BEARER_TOKEN as read at import
    run,            \* number of the current run of the script
    pc,             \* position of the process
    i,              \* index of the endpoint the loop is at
    data,           \* download_tmdb_endpoint: data
    ret,            \* value returned by download_tmdb_endpoint
    err,            \* exception raised by the last step, "none" if none
    success_count,  \* main: success_count
    total_records,  \* main: total_records
    requests,       \* endpoint paths requested in this run, in order
    disk,           \* content of the files of data/
    counted,        \* per endpoint, the body it was counted successful with
    exit_code       \* process exit status, -1 while running

vars == <<env, run, pc, i, data, ret, err, success_count, total_records,
          requests, disk, counted, exit_code>>

Absent == [age |-> "never", st |-> "absent", body |-> NoBody]

\* a file left by an earlier run; the script never reads data/, so what an
\* earlier run left is kept as its age alone
Stale == [age |-> "earlier_run", st |-> "present", body |-> NoBody]

\* a file written in this run
Written(st, body) == [age |-> "this_run", st |-> st, body |-> body]

Failure == [ok |-> FALSE, n |-> 0]

NotCounted == [k \in 1..total_files |-> NoBody]

Init ==
    /\ env \in [key : EnvValues, token : EnvValues]
    /\ run = 1
    /\ pc = "start"
    /\ i = 1
    /\ data = NoBody
    /\ ret = Failure
    /\ err = "none"
    /\ success_count = 0
    /\ total_records = 0
    /\ requests = <<>>
    /\ disk = [f \in Files |-> Absent]
    /\ counted = NotCounted
    /\ exit_code = -1

(* ------------------------------ main ---------------------------------- *)
\* mutant: "and" where the code has "or"
CredentialsMissing_BothOnly(e) == ~Truthy(e.key) /\ ~Truthy(e.token)

\* main(): if not TMDB_API_KEY or not TMDB_BEARER_TOKEN
CredentialsMissing(e) == ~Truthy(e.key) \/ ~Truthy(e.token)

CheckCredentials ==
    /\ pc = "start"
    /\ IF CredentialsMissing(env)
       THEN /\ pc' = "exited"
            /\ exit_code' = 1
       ELSE /\ pc' = "request"
            /\ exit_code' = exit_code
    /\ UNCHANGED <<env, run, i, data, ret, err, success_count, total_records,
                   requests, disk, counted>>

(* ------------------------ download_tmdb_endpoint ---------------------- *)
\* the exception a failed request raises
NetError(net) == IF net = "bad_json" THEN "JSONDecodeError" ELSE "RequestException"

\* requests.get, raise_for_status, response.json: one attempt; an exception
\* is caught by one of the two handlers, which return (False, 0).  S is the
\* set of bodies the service may answer with
RequestFrom(S) ==
    /\ pc = "request"
    /\ requests' = Append(requests, EndpointPaths[i])
    /\ \E net \in NetOutcomes :
         IF net = "ok"
         THEN /\ \E body \in S : data' = body
              /\ pc' = "persist"
              /\ UNCHANGED <<ret, err>>
         ELSE /\ data' = NoBody
              /\ err' = NetError(net)
              /\ ret' = Failure
              /\ pc' = "tally"
    /\ UNCHANGED <<env, run, i, success_count, total_records, disk, counted,
                   exit_code>>

Request == RequestFrom(Bodies)

RequestAny == RequestFrom(AllBodies)

\* mutant: the write is outside the try, its failure ends the process
Persist_Uncaught ==
    /\ pc = "persist"
    /\ \E fs \in FsOutcomes :
         CASE fs = "ok" ->
                /\ disk' = [disk EXCEPT ![Filenames[i]] = Written("complete", data)]
                /\ pc' = "count"
                /\ UNCHANGED <<ret, err, exit_code>>
           [] fs = "open_failed" ->
                /\ disk' = disk
                /\ err' = "OSError"
                /\ ret' = ret
                /\ pc' = "exited"
                /\ exit_code' = 1
           [] fs = "write_failed" ->
                /\ disk' = [disk EXCEPT ![Filenames[i]] = Written("partial", NoBody)]
                /\ err' = "OSError"
                /\ ret' = ret
                /\ pc' = "exited"
                /\ exit_code' = 1
    /\ UNCHANGED <<env, run, i, data, success_count, total_records, requests,
                   counted>>

\* mutant: a file that exists already is not written again
Persist_KeepsExisting ==
    /\ pc = "persist"
    /\ \E fs \in FsOutcomes :
         CASE fs = "ok" ->
                /\ disk' = IF disk[Filenames[i]].st = "absent"
                           THEN [disk EXCEPT ![Filenames[i]] = Written("complete", data)]
                           ELSE disk
                /\ pc' = "count"
                /\ UNCHANGED <<ret, err>>
           [] fs = "open_failed" ->
                /\ disk' = disk
                /\ err' = "OSError"
                /\ ret' = Failure
                /\ pc' = "tally"
           [] fs = "write_failed" ->
                /\ disk' = [disk EXCEPT ![Filenames[i]] = Written("partial", NoBody)]
                /\ err' = "OSError"
                /\ ret' = Failure
                /\ pc' = "tally"
    /\ UNCHANGED <<env, run, i, data, success_count, total_records, requests,
                   counted, exit_code>>

\* mutant: a failure of json.dump is swallowed and the call goes on
Persist_IgnoresWriteError ==
    /\ pc = "persist"
    /\ \E fs \in FsOutcomes :
         CASE fs = "ok" ->
                /\ disk' = [disk EXCEPT ![Filenames[i]] = Written("complete", data)]
                /\ pc' = "count"
                /\ UNCHANGED <<ret, err>>
           [] fs = "open_failed" ->
                /\ disk' = disk
                /\ err' = "OSError"
                /\ ret' = Failure
                /\ pc' = "tally"
           [] fs = "write_failed" ->
                /\ disk' = [disk EXCEPT ![Filenames[i]] = Written("partial", NoBody)]
                /\ pc' = "count"
                /\ UNCHANGED <<ret, err>>
    /\ UNCHANGED <<env, run, i, data, success_count, total_records, requests,
                   counted, exit_code>>

\* os.makedirs, open(filepath, 'w'), json.dump: open truncates the file, so
\* a failure after it leaves a partial file; the OSError is caught by
\* "except Exception", which returns (False, 0)
Persist ==
    /\ pc = "persist"
    /\ \E fs \in FsOutcomes :
         CASE fs = "ok" ->
                /\ disk' = [disk EXCEPT ![Filenames[i]] = Written("complete", data)]
                /\ pc' = "count"
                /\ UNCHANGED <<ret, err>>
           [] fs = "open_failed" ->
                /\ disk' = disk
                /\ err' = "OSError"
                /\ ret' = Failure
                /\ pc' = "tally"
           [] fs = "write_failed" ->
                /\ disk' = [disk EXCEPT ![Filenames[i]] = Written("partial", NoBody)]
                /\ err' = "OSError"
                /\ ret' = Failure
                /\ pc' = "tally"
    /\ UNCHANGED <<env, run, i, data, success_count, total_records, requests,
                   counted, exit_code>>

\* len(data.get('results', [])): data.get exists on a dict only; len is
\* defined on lists, strings and dicts and raises TypeError on the rest
ResultsLen(d) ==
    IF d.kind # "object" THEN [raised |-> "AttributeError", n |-> 0]
    ELSE IF d.results.t = "absent" THEN [raised |-> "none", n |-> 0]
    ELSE IF d.results.t \in Sized THEN [raised |-> "none", n |-> d.results.n]
    ELSE [raised |-> "TypeError", n |-> 0]

\* results_count = len(...); return True, results_count; an exception is
\* caught by "except Exception", which returns (False, 0)
CountResults ==
    /\ pc = "count"
    /\ LET r == ResultsLen(data) IN
         IF r.raised = "none"
         THEN /\ ret' = [ok |-> TRUE, n |-> r.n]
              /\ err' = err
         ELSE /\ ret' = Failure
              /\ err' = r.raised
    /\ pc' = "tally"
    /\ UNCHANGED <<env, run, i, data, success_count, total_records, requests,
                   disk, counted, exit_code>>

(* --------------------------- main, the loop --------------------------- *)
\* mutant: the loop breaks at the first failed endpoint
Tally_StopsOnFailure ==
    /\ pc = "tally"
    /\ IF ret.ok
       THEN /\ success_count' = success_count + 1
            /\ total_records' = total_records + ret.n
            /\ counted' = [counted EXCEPT ![i] = data]
       ELSE UNCHANGED <<success_count, total_records, counted>>
    /\ i' = i + 1
    /\ pc' = IF i = total_files \/ ~ret.ok THEN "write_info" ELSE "request"
    /\ data' = NoBody
    /\ ret' = Failure
    /\ err' = "none"
    /\ UNCHANGED <<env, run, requests, disk, exit_code>>

\* mutant: success_count += 1 outside the "if success"
Tally_CountsEveryEndpoint ==
    /\ pc = "tally"
    /\ success_count' = success_count + 1
    /\ IF ret.ok
       THEN /\ total_records' = total_records + ret.n
            /\ counted' = [counted EXCEPT ![i] = data]
       ELSE UNCHANGED <<total_records, counted>>
    /\ i' = i + 1
    /\ pc' = IF i = total_files THEN "write_info" ELSE "request"
    /\ data' = NoBody
    /\ ret' = Failure
    /\ err' = "none"
    /\ UNCHANGED <<env, run, requests, disk, exit_code>>

\* if success: success_count += 1; total_records += records; next endpoint.
\* data, ret and err die with the iteration: the next call assigns them
\* before it reads them
Tally ==
    /\ pc = "tally"
    /\ IF ret.ok
       THEN /\ success_count' = success_count + 1
            /\ total_records' = total_records + ret.n
            /\ counted' = [counted EXCEPT ![i] = data]
       ELSE UNCHANGED <<success_count, total_records, counted>>
    /\ i' = i + 1
    /\ pc' = IF i = total_files THEN "write_info" ELSE "request"
    /\ data' = NoBody
    /\ ret' = Failure
    /\ err' = "none"
    /\ UNCHANGED <<env, run, requests, disk, exit_code>>

(* -------------------------- main, the summary ------------------------- *)
\* "success" if success_count > 0 else "failed"
ApiStatus(sc) == IF sc > 0 THEN "success" ELSE "failed"

\* mutant: "files" lists only the files written in this run
UpdateInfo_WrittenFilesOnly ==
    [kind |-> "update_info",
     last_update |-> run,
     total_files |-> total_files,
     success_files |-> success_count,
     total_records |-> total_records,
     files |-> SelectSeq(Filenames, LAMBDA f : disk[f] # Absent /\ disk[f] # Stale),
     api_status |-> ApiStatus(success_count)]

\* main(): update_info; the timestamp is the time of this run
UpdateInfo ==
    [kind |-> "update_info",
     last_update |-> run,
     total_files |-> total_files,
     success_files |-> success_count,
     total_records |-> total_records,
     files |-> Filenames,
     api_status |-> ApiStatus(success_count)]

\* main(): the three lines of last_update.txt
LastUpdateText ==
    [kind |-> "last_update",
     updated |-> run,
     success |-> <<success_count, total_files>>,
     records |-> total_records]

\* an exception main() does not catch: traceback, exit status 1
Crash(e) ==
    /\ err' = e
    /\ pc' = "exited"
    /\ exit_code' = 1

\* open(path, 'w') and the writes into it, outside any try
WriteFile(f, body, next) ==
    \E fs \in FsOutcomes :
      CASE fs = "ok" ->
             /\ disk' = [disk EXCEPT ![f] = Written("complete", body)]
             /\ pc' = next
             /\ UNCHANGED <<err, exit_code>>
        [] fs = "open_failed" ->
             /\ disk' = disk
             /\ Crash("OSError")
        [] fs = "write_failed" ->
             /\ disk' = [disk EXCEPT ![f] = Written("partial", NoBody)]
             /\ Crash("OSError")

\* os.makedirs('data'); json.dump(update_info, f)
WriteUpdateInfo ==
    /\ pc = "write_info"
    /\ WriteFile(InfoFile, UpdateInfo, "write_text")
    /\ UNCHANGED <<env, run, i, data, ret, success_count, total_records,
                   requests, counted>>

\* the three f.write calls into data/last_update.txt
WriteLastUpdate ==
    /\ pc = "write_text"
    /\ WriteFile(TextFile, LastUpdateText, "status")
    /\ UNCHANGED <<env, run, i, data, ret, success_count, total_records,
                   requests, counted>>

\* mutant: a partial success exits with 1
ExitStatus_AllRequired(sc) == IF sc < total_files THEN 1 ELSE 0

\* if success_count == 0: exit(1) / elif success_count < total_files:
\* exit(0) / else: exit(0)
ExitStatus(sc) ==
    IF sc = 0 THEN 1
    ELSE IF sc < total_files THEN 0
    ELSE 0

Exit ==
    /\ pc = "status"
    /\ exit_code' = ExitStatus(success_count)
    /\ pc' = "exited"
    /\ UNCHANGED <<env, run, i, data, ret, err, success_count, total_records,
                   requests, disk, counted>>

(* ---------------------------- the scheduler --------------------------- *)
\* what the files of data/ are to the next run
Aged(d) == [f \in Files |-> IF d[f].st = "absent" THEN Absent ELSE Stale]

\* the script is started again: a new process, the environment read anew,
\* data/ as the last run left it
Rerun ==
    /\ pc = "exited"
    /\ run < MaxRuns
    /\ run' = run + 1
    /\ env' \in [key : EnvValues, token : EnvValues]
    /\ pc' = "start"
    /\ i' = 1
    /\ data' = NoBody
    /\ ret' = Failure
    /\ err' = "none"
    /\ success_count' = 0
    /\ total_records' = 0
    /\ requests' = <<>>
    /\ disk' = Aged(disk)
    /\ counted' = NotCounted
    /\ exit_code' = -1

(* --------------------------- specifications --------------------------- *)
\* one step of a run of the script
Step ==
    \/ CheckCredentials
    \/ Request
    \/ Persist
    \/ CountResults
    \/ Tally
    \/ WriteUpdateInfo
    \/ WriteLastUpdate
    \/ Exit

Next ==
    \/ Step
    \/ Rerun

\* the script started MaxRuns times
Spec == Init /\ [][Next]_vars

\* one call of download_tmdb_endpoint, for any endpoint, in a first run
\* whose earlier endpoints all failed on the network
InitFetch ==
    /\ env = [key |-> "set", token |-> "set"]
    /\ run = 1
    /\ pc = "request"
    /\ i \in 1..total_files
    /\ data = NoBody
    /\ ret = Failure
    /\ err = "none"
    /\ success_count = 0
    /\ total_records = 0
    /\ requests = SubSeq(EndpointPaths, 1, i - 1)
    /\ disk = [f \in Files |-> Absent]
    /\ counted = NotCounted
    /\ exit_code = -1

FetchStep ==
    \/ RequestAny
    \/ Persist
    \/ CountResults

\* download_tmdb_endpoint on every shape of body
FetchSpec == InitFetch /\ [][FetchStep]_vars

\* one run of the script; it is sequential and every call returns (the
\* request has a timeout), so a run that can take a step takes it
RunSpec == Init /\ [][Step]_vars /\ WF_vars(Step)

(* ------------------------------ claims -------------------------------- *)
\* the five configured paths and filenames, written out
FivePaths ==
    <<"/movie/popular", "/movie/top_rated", "/movie/now_playing",
      "/tv/popular", "/tv/top_rated">>

FiveFilenames ==
    <<"movies_popular_page1.json", "movies_top_rated_page1.json",
      "movies_now_playing_page1.json", "tv_popular_page1.json",
      "tv_top_rated_page1.json">>

\* the run had both credentials
HadCredentials == env.key = "set" /\ env.token = "set"

\* the run wrote both summary files and left through the exit at the end
\* of main()
Completed == pc = "exited" /\ HadCredentials /\ err = "none"

\* the endpoints counted as successful in this run
CountedSet == {k \in 1..total_files : counted[k] # NoBody}

\* the raw files written completely in this run
RawWritten ==
    {f \in RawFiles : disk[f].age = "this_run" /\ disk[f].st = "complete"}

RECURSIVE SumRecords(_)
SumRecords(S) ==
    IF S = {} THEN 0
    ELSE LET k == CHOOSE x \in S : TRUE
         IN  ResultsLen(counted[k]).n + SumRecords(S \ {k})

\* C1: a run that starts with the API key or the bearer token absent or
\* empty issues no request, writes no file, and can only end with exit
\* code 1.
C1_MissingCredentialsStop ==
    (env.key # "set" \/ env.token # "set") =>
        /\ requests = <<>>
        /\ \A f \in Files : disk[f].age # "this_run"
        /\ pc \in {"start", "exited"}
        /\ (pc = "exited" => exit_code = 1)

C1_Witness ==
    /\ pc = "exited"
    /\ env.key = "set"
    /\ env.token = "empty"
    /\ exit_code = 1

\* C2: in a run that has its credentials the requests issued so far are
\* always a prefix of the five configured paths, each at most once and in
\* configuration order; the summary phase and the end of the run are only
\* reached with all five requested; and the run that starts the loop
\* eventually reaches the summary phase.
C2_Order ==
    /\ Len(requests) <= Len(FivePaths)
    /\ requests = SubSeq(FivePaths, 1, Len(requests))
    /\ (pc \in {"request", "persist", "count", "tally"} =>
            Len(requests) \in {i - 1, i})
    /\ (pc \in {"write_info", "write_text", "status"} => requests = FivePaths)
    /\ (pc = "exited" /\ HadCredentials => requests = FivePaths)

\* C2: the order above holds in every state of a run, and a run that
\* enters the loop reaches the summary phase whatever the fetches do.
C2_EveryEndpointOnce ==
    /\ []C2_Order
    /\ ((pc = "request" /\ i = 1) ~> (pc = "write_info"))

C2_Witness ==
    /\ pc = "write_info"
    /\ requests = FivePaths
    /\ success_count \in 1..(total_files - 1)

\* C3 (as stated): a filesystem write failure for any output file is
\* fatal: once one has happened the run has stopped with a non-zero status.
C3_AnyWriteFailureFatal ==
    err = "OSError" => (pc = "exited" /\ exit_code # 0 /\ exit_code # -1)

\* C3 (amended): a write failure for update_info.json or last_update.txt is
\* not caught and ends the run with status 1, last_update.txt untouched when
\* update_info.json failed; a write failure for a raw file is caught in
\* download_tmdb_endpoint, the endpoint is a failure that changes no counter,
\* and the loop goes on to the next endpoint or the summary.
C3_FailureState ==
    err = "OSError" =>
        \/ /\ pc = "tally"
           /\ ~ret.ok
           /\ exit_code = -1
        \/ /\ pc = "exited"
           /\ exit_code = 1
           /\ requests = FivePaths
           /\ \/ disk[InfoFile] # Written("complete", UpdateInfo)
              \/ disk[TextFile] # Written("complete", LastUpdateText)

C3_RawFailureContinues ==
    (pc = "tally" /\ err = "OSError") =>
        /\ success_count' = success_count
        /\ total_records' = total_records
        /\ pc' = (IF i = Len(FivePaths) THEN "write_info" ELSE "request")
        /\ exit_code' = -1

C3_SummaryFailureAborts ==
    /\ (pc = "write_info" /\ disk'[InfoFile] # Written("complete", UpdateInfo)) =>
            /\ pc' = "exited"
            /\ exit_code' = 1
            /\ disk'[TextFile] = disk[TextFile]
    /\ (pc = "write_text" /\ disk'[TextFile] # Written("complete", LastUpdateText)) =>
            /\ pc' = "exited"
            /\ exit_code' = 1

\* C3 (amended): the three parts above: where a write failure leaves the
\* run, what the tally does after a raw-file failure, and what a summary
\* write does when it fails.
C3_SummaryWriteFailureFatal ==
    /\ []C3_FailureState
    /\ [][C3_RawFailureContinues]_vars
    /\ [][C3_SummaryFailureAborts]_vars

\* a raw write failed, the run went on, and the summary write then failed
C3_Witness ==
    /\ pc = "exited"
    /\ err = "OSError"
    /\ exit_code = 1
    /\ disk[InfoFile].st = "partial"
    /\ \E f \in RawFiles : disk[f] = Written("partial", NoBody)
    /\ success_count > 0

\* C4: once the loop is over, the raw files written in this run are as many
\* as the endpoints counted as successful.
C4_FilesEqualSuccesses ==
    (HadCredentials /\ pc \in {"write_info", "write_text", "status", "exited"}) =>
        Cardinality(RawWritten) = success_count

\* C5 (as stated): after a second or later run has completed, no output
\* file still holds what an earlier run wrote.
C5_NoStaleFile ==
    (run >= 2 /\ Completed) => \A f \in Files : disk[f].age # "earlier_run"

\* C5 (amended): after a second or later run has completed, update_info.json
\* and last_update.txt hold what this run wrote, and so does the raw file of
\* every endpoint counted as successful; only the raw file of an endpoint
\* that failed in this run can still hold what an earlier run wrote.
C5_StaleOnlyWhereFailed ==
    (run >= 2 /\ Completed) =>
        /\ disk[InfoFile].age = "this_run"
        /\ disk[TextFile].age = "this_run"
        /\ \A k \in 1..Len(FiveFilenames) :
             disk[FiveFilenames[k]].age = "earlier_run" => counted[k] = NoBody

C5_Witness ==
    /\ run >= 2
    /\ Completed
    /\ \E k \in CountedSet : TRUE
    /\ \E f \in RawFiles : disk[f].age = "earlier_run"

\* C6: a body that came with a 2xx status, parsed as JSON and was written
\* makes the fetch a success whose record count is the length of "results"
\* when that is an array and 0 in every other case.
C6_RecordCount ==
    (pc = "tally" /\ data # NoBody /\ err # "OSError") =>
        /\ ret.ok
        /\ ret.n = (IF data.kind = "object" /\ data.results.t = "array"
                    THEN data.results.n ELSE 0)

\* C7: in a run that wrote its summary and left through the end of main(),
\* update_info.json reports the number of endpoints counted as successful;
\* with at least one, api_status is "success" and the exit code 0 (and
\* success_files 5 when all five were counted); with none, success_files is
\* 0, api_status "failed" and the exit code 1; so the exit code is 0 exactly
\* when api_status is "success".
C7_OutcomeBySuccessCount ==
    Completed =>
        LET info == disk[InfoFile].body
            n == Cardinality(CountedSet)
        IN  /\ disk[InfoFile].age = "this_run"
            /\ disk[InfoFile].st = "complete"
            /\ info.success_files = n
            /\ (n > 0 => info.api_status = "success" /\ exit_code = 0)
            /\ (n = Len(FivePaths) => info.success_files = 5)
            /\ (n = 0 => info.api_status = "failed" /\ exit_code = 1)
            /\ (exit_code = 0 <=> info.api_status = "success")

C7_Witness ==
    /\ Completed
    /\ Cardinality(CountedSet) \in 1..(Len(FivePaths) - 1)
    /\ exit_code = 0

\* C8: success_count is the number of endpoints counted as successful, at
\* most the number of endpoints processed so far and at most 5;
\* total_records is the sum of the record counts of exactly those
\* endpoints; the summary files report these two numbers; and tallying a
\* failed endpoint changes neither counter.
C8_Counters ==
    /\ success_count = Cardinality(CountedSet)
    /\ CountedSet \subseteq 1..(i - 1)
    /\ success_count <= i - 1
    /\ success_count <= 5
    /\ total_records = SumRecords(CountedSet)
    /\ (disk[InfoFile].age = "this_run" /\ disk[InfoFile].st = "complete" =>
            /\ disk[InfoFile].body.success_files = success_count
            /\ disk[InfoFile].body.total_records = total_records)
    /\ (disk[TextFile].age = "this_run" /\ disk[TextFile].st = "complete" =>
            /\ disk[TextFile].body.success = <<success_count, 5>>
            /\ disk[TextFile].body.records = total_records)

C8_FailureChangesNothing ==
    (pc = "tally" /\ ~ret.ok) =>
        (success_count' = success_count /\ total_records' = total_records)

\* C8: the counters agree with the endpoints counted as successful in every
\* state, and the tally of a failed endpoint changes neither of them.
C8_CountersTrackSuccesses ==
    /\ []C8_Counters
    /\ [][C8_FailureChangesNothing]_vars

C8_Witness ==
    /\ pc = "write_info"
    /\ success_count \in 2..(total_files - 1)
    /\ total_records > 0
    /\ total_records < success_count

\* C9: every update_info.json a run has written has total_files 5 and, as
\* files, the five configured filenames in configuration order.
C9_FilesListFixed ==
    (disk[InfoFile].age = "this_run" /\ disk[InfoFile].st = "complete") =>
        /\ disk[InfoFile].body.total_files = 5
        /\ disk[InfoFile].body.files = FiveFilenames

C9_Witness ==
    /\ disk[InfoFile].age = "this_run"
    /\ disk[InfoFile].st = "complete"
    /\ disk[InfoFile].body.success_files \in 1..4
    /\ counted[1] = NoBody

\* C10: an endpoint counted as successful has its raw file on disk, written
\* completely in this run with the body fetched in this run; the file is
\* already there when the fetch returns success, before the tally.
C10_WrittenBeforeCounted ==
    /\ \A k \in CountedSet :
         disk[FiveFilenames[k]] = Written("complete", counted[k])
    /\ (pc = "tally" /\ ret.ok =>
            /\ data # NoBody
            /\ disk[FiveFilenames[i]] = Written("complete", data))

C10_Witness ==
    /\ Completed
    /\ \E k \in CountedSet : counted[k] = Body("object", "array", MaxLen)
    /\ \E f \in RawFiles : disk[f].st = "partial"

====
